---- MODULE Spec2Model ----
(***************************************************************************)
(* The chat session of src/server.ts (ChatAgent): one persisted message    *)
(* sequence per session, onMessage invocations that suspend at the model   *)
(* call and at the pacing sleep, and the messages sent to the connections. *)
(*                                                                         *)
(* A string is a sequence of atoms.  An atom is a one-character string, or *)
(* a longer literal that the code only ever handles as a whole.  The empty *)
(* sequence is the empty string.                                           *)
(***************************************************************************)
EXTENDS Naturals, Integers, Sequences, FiniteSets, TLC

VARIABLES
    messages,   \* this.state.messages: the persisted sequence of turns
    inv,        \* the onMessage invocations that passed validation, in order of acceptance;
                \* inv[i].sent is what invocation i has passed to connection.send, in order
    sent,       \* what the other handlers have passed to connection.send, in order
    resets,     \* the connections whose reset frames were processed, in order
    fresh,      \* a reset was processed and no user message was accepted since
    turnOf,     \* turnOf[k] is the invocation whose user turn messages[k] is, 0 if there
                \* is none: an assistant turn, or a turn persisted before this run
    received,   \* the frame the last onMessage call was given, where that is recorded
    connected,  \* the connections onConnect was called with, in order
    localStorage,   \* the browser's item "cf_agent_demo_id": <<>> if there is none, else <<id>>
    agentIds,   \* what the calls of getAgentId in this browser returned, in order
    uiMessages,         \* the page's state "messages": the list it displays
    waitingForReply,    \* the page's state "waitingForReply"
    inbox,      \* the frames the session sent to the page's socket that have not arrived
    outbox,     \* the frames the page sent on its socket that have not arrived
    effects,    \* the runs of the page's connection effect: effects[e] is closedByCleanup
    sockets,    \* the WebSockets the effect made, in order: readyState and the effect run
    wsRef,      \* wsRef.current: 0 for null, else the place of the socket in sockets
    reconnectTimerRef,  \* reconnectTimerRef.current: 0 for null, else the place in timers
    timers,     \* the timeouts the effect set, in order: pending, fired or cleared
    status,     \* the page's state "status"
    online      \* the page's state "online"

storageVars == <<localStorage, agentIds>>
uiVars == <<uiMessages, waitingForReply, inbox, outbox>>
loopVars == <<effects, sockets, wsRef, reconnectTimerRef, timers, status, online>>

\* the state of the browser, which no step of the session touches
clientVars == <<storageVars, uiVars, loopVars>>

vars ==
    <<messages, inv, sent, resets, fresh, turnOf, received, connected, localStorage, agentIds,
      uiMessages, waitingForReply, inbox, outbox,
      effects, sockets, wsRef, reconnectTimerRef, timers, status, online>>

----------------------------------------------------------------------------
(* Bounds of the model *)

MaxInv == 2
MaxResets == 1

----------------------------------------------------------------------------
(* Program constants *)

TEXT_MODEL == "@cf/meta/llama-3.3-70b-instruct-fp8-fast"
VISION_MODEL == "@cf/meta/llama-3.2-11b-vision-instruct"
VISION_FALLBACK_MODEL == "@cf/llava-hf/llava-1.5-7b-hf"

WordsPerChunk == 3
ContextTurns == 12
HistoryTurns == 50

Placeholder == <<"Describe this image.">>
LicensePhrase == <<"submit the prompt 'agree'">>
GenericErrorText == <<"I hit an AI error. Please try again in a moment.">>
LicenseErrorText == <<"Image analysis is currently unavailable for this account. For Llama 3.2 vision, run one prompt with text 'agree' in Workers AI to accept the license, then try again.">>

----------------------------------------------------------------------------
(* Strings *)

Whitespace == {" ", "\t", "\n"}

\* s.slice(-n) of a sequence
LastN(s, n) == IF Len(s) <= n THEN s ELSE SubSeq(s, Len(s) - n + 1, Len(s))

RECURSIVE TrimLeft(_)
TrimLeft(s) == IF s # <<>> /\ Head(s) \in Whitespace THEN TrimLeft(Tail(s)) ELSE s

RECURSIVE TrimRight(_)
TrimRight(s) ==
    IF s # <<>> /\ s[Len(s)] \in Whitespace THEN TrimRight(SubSeq(s, 1, Len(s) - 1)) ELSE s

\* String.prototype.trim
Trim(s) == TrimRight(TrimLeft(s))

\* String.prototype.includes: part occurs in s as a contiguous run
Includes(s, part) ==
    \E i \in 0..(Len(s) - Len(part)) : SubSeq(s, i + 1, i + Len(part)) = part

\* text.split(/\s+/).filter(Boolean): the maximal runs of non-whitespace atoms
RECURSIVE SplitWords(_, _, _)
SplitWords(s, cur, acc) ==
    IF s = <<>> THEN (IF cur = <<>> THEN acc ELSE Append(acc, cur))
    ELSE IF Head(s) \in Whitespace
         THEN SplitWords(Tail(s), <<>>, IF cur = <<>> THEN acc ELSE Append(acc, cur))
         ELSE SplitWords(Tail(s), Append(cur, Head(s)), acc)

\* words.join(" ")
RECURSIVE JoinWords(_)
JoinWords(ws) ==
    IF ws = <<>> THEN <<>>
    ELSE IF Len(ws) = 1 THEN ws[1]
    ELSE ws[1] \o <<" ">> \o JoinWords(Tail(ws))

RECURSIVE ChunkLoop(_, _, _)
ChunkLoop(words, i, n) ==
    IF i > Len(words) THEN <<>>
    ELSE LET hi == IF i + n - 1 < Len(words) THEN i + n - 1 ELSE Len(words)
         IN  <<JoinWords(SubSeq(words, i, hi)) \o <<" ">>>> \o ChunkLoop(words, i + n, n)

\* variant: the chunks end with their last word
chunkByWordsTrimmed(text, wordsPerChunk) ==
    LET chunks == ChunkLoop(SplitWords(text, <<>>, <<>>), 1, wordsPerChunk)
    IN  IF chunks # <<>> THEN [k \in 1..Len(chunks) |-> TrimRight(chunks[k])] ELSE <<text>>

\* variant: a text without words is trimmed
chunkByWordsTrimmedText(text, wordsPerChunk) ==
    LET chunks == ChunkLoop(SplitWords(text, <<>>, <<>>), 1, wordsPerChunk)
    IN  IF chunks # <<>> THEN chunks ELSE <<Trim(text)>>

chunkByWords(text, wordsPerChunk) ==
    LET chunks == ChunkLoop(SplitWords(text, <<>>, <<>>), 1, wordsPerChunk)
    IN  IF chunks # <<>> THEN chunks ELSE <<text>>

----------------------------------------------------------------------------
(* Image data URLs *)

MediaTypeAtoms == {"p", "n", "g", "j", "e", ".", "+", "-", "0"}

\* /^data:image\/[a-zA-Z0-9.+-]+;base64,/ on a string given as atoms "data:image/",
\* media-type characters, ";base64," and the payload
RECURSIVE MediaTypeThenBase64(_, _)
MediaTypeThenBase64(s, seen) ==
    IF s = <<>> THEN FALSE
    ELSE IF Head(s) = ";base64," THEN seen > 0
    ELSE IF Head(s) \in MediaTypeAtoms THEN MediaTypeThenBase64(Tail(s), seen + 1)
    ELSE FALSE

\* a JS value of a payload field: absent, a string, or some other type
Absent == [t |-> "undefined"]
Str(s) == [t |-> "string", s |-> s]
NotAString == [t |-> "number"]

\* variant: the media type may be empty
isImageDataUrlAnyType(value) ==
    /\ value.t = "string"
    /\ value.s # <<>>
    /\ Head(value.s) = "data:image/"
    /\ MediaTypeThenBase64(Tail(value.s), 1)

isImageDataUrl(value) ==
    /\ value.t = "string"
    /\ value.s # <<>>
    /\ Head(value.s) = "data:image/"
    /\ MediaTypeThenBase64(Tail(value.s), 0)

----------------------------------------------------------------------------
(* Model responses and the reply text taken from them *)

\* a JS value returned by env.AI.run: null, undefined, a string, or an object
\* whose populated fields are strings (f maps the field names present to them)
Null == [t |-> "null"]
Obj(f) == [t |-> "object", f |-> f]

Truthy(v) ==
    CASE v.t = "string" -> v.s # <<>>
      [] v.t = "object" -> TRUE
      [] OTHER -> FALSE

\* obj.name for a value of any type
Field(v, name) == IF v.t = "object" /\ name \in DOMAIN v.f THEN Str(v.f[name]) ELSE Absent

\* a || b
Or(a, b) == IF Truthy(a) THEN a ELSE b

RECURSIVE StringifyFields(_, _, _)
StringifyFields(f, names, first) ==
    IF names = <<>> THEN <<>>
    ELSE IF Head(names) \in DOMAIN f
         THEN (IF first THEN <<>> ELSE <<",">>)
              \o <<"\"", Head(names), "\":\"">> \o f[Head(names)] \o <<"\"">>
              \o StringifyFields(f, Tail(names), FALSE)
         ELSE StringifyFields(f, Tail(names), first)

\* JSON.stringify of a response value (undefined for undefined)
JsonStringify(v) ==
    CASE v.t = "null" -> Str(<<"null">>)
      [] v.t = "undefined" -> Absent
      [] v.t = "string" -> Str(<<"\"">> \o v.s \o <<"\"">>)
      [] OTHER -> Str(<<"{">>
                      \o StringifyFields(v.f, <<"response", "result", "output_text", "description">>, TRUE)
                      \o <<"}">>)

\* String(value)
JsString(v) ==
    CASE v.t = "string" -> v.s
      [] v.t = "null" -> <<"null">>
      [] v.t = "undefined" -> <<"undefined">>
      [] OTHER -> <<"[object Object]">>

\* x ?? (typeof resp === "string" ? resp : JSON.stringify(resp))
OrRaw(x, resp) ==
    IF x.t \in {"null", "undefined"}
    THEN (IF resp.t = "string" THEN resp ELSE JsonStringify(resp))
    ELSE x

ExtractPrimary(aiResp) ==
    OrRaw(IF Truthy(aiResp)
          THEN Or(Or(Field(aiResp, "response"), Field(aiResp, "result")),
                  Field(aiResp, "output_text"))
          ELSE aiResp,
          aiResp)

ExtractFallback(fallbackResp) ==
    OrRaw(IF Truthy(fallbackResp)
          THEN Or(Or(Or(Field(fallbackResp, "response"), Field(fallbackResp, "result")),
                     Field(fallbackResp, "output_text")),
                  Field(fallbackResp, "description"))
          ELSE fallbackResp,
          fallbackResp)

----------------------------------------------------------------------------
(* Inbound frames, model outcomes and connections drawn by the environment *)

Conns == {"c1", "c2"}

\* a frame: text that JSON.parse rejects, or a parsed payload with its fields
BadJson == [json |-> FALSE]
Payload(type, content, image) ==
    [json |-> TRUE, p |-> [type |-> type, content |-> content, imageDataUrl |-> image]]

PngUrl == <<"data:image/", "p", "n", "g", ";base64,", "A">>
TextUrl == <<"data:text/plain", ";base64,", "A">>

ResetFrame == Payload(Str(<<"reset">>), Absent, Absent)
TextFrame == Payload(Str(<<"user">>), Str(<<" ", "h", "i", " ">>), Absent)
ImageFrame == Payload(Str(<<"user">>), Str(<<" ">>), Str(PngUrl))
TextBadImageFrame == Payload(Str(<<"user">>), Str(<<"h", "i">>), Str(TextUrl))

PingFrame == Payload(Str(<<"ping">>), Str(<<"h", "i">>), Absent)
NoTypeFrame == Payload(Absent, Str(<<"h", "i">>), Absent)
NoStringFrame == Payload(Str(<<"user">>), NotAString, Str(PngUrl))
BlankFrame == Payload(Str(<<"user">>), Str(<<" ">>), Absent)
BlankBadImageFrame == Payload(Str(<<"user">>), Str(<<" ", "\n">>), Str(TextUrl))
EmptyNoStringImageFrame == Payload(Str(<<"user">>), Str(<<>>), NotAString)

\* text with an image field that the pattern refuses: no media type, a character
\* outside the media-type class, the marker not at the start of the string, no
\* base64 marker, not a string
NoMediaTypeFrame ==
    Payload(Str(<<"user">>), Str(<<"h", "i">>), Str(<<"data:image/", ";base64,", "A">>))
BadMediaTypeFrame ==
    Payload(Str(<<"user">>), Str(<<"h", "i">>), Str(<<"data:image/", "p", "/", "g", ";base64,", "A">>))
LateMarkerFrame ==
    Payload(Str(<<"user">>), Str(<<"h", "i">>), Str(<<" ">> \o PngUrl))
NoBase64Frame ==
    Payload(Str(<<"user">>), Str(<<"h", "i">>), Str(<<"data:image/", "p", "n", "g", ",", "A">>))
TextNoStringImageFrame == Payload(Str(<<"user">>), Str(<<"h", "i">>), NotAString)

Frames ==
    { BadJson, ResetFrame, TextFrame, ImageFrame, TextBadImageFrame,
      PingFrame, NoTypeFrame, NoStringFrame,
      BlankFrame, BlankBadImageFrame, EmptyNoStringImageFrame,
      NoMediaTypeFrame, BadMediaTypeFrame, LateMarkerFrame, NoBase64Frame,
      TextNoStringImageFrame }

\* the frames drawn where the whole session runs: the three kinds that are handled
\* differently, with the accepted ones in each form
SessionFrames ==
    { BadJson, ResetFrame, TextFrame, ImageFrame, TextBadImageFrame, BlankBadImageFrame }

\* what env.AI.run resolves with
LongReply == <<"a", " ", "b", " ", "c", " ", "d">>
PrimaryResponses ==
    { Obj([response |-> LongReply]), Obj([result |-> <<"o", "k">>]) }
FallbackResponses ==
    { Obj([description |-> <<"c", "a", "t">>]) }

\* the message of what env.AI.run rejects with
LicenseError == <<"5016: ", "submit the prompt 'agree'", " first">>
Errors == { LicenseError, <<"3040: ", "capacity">> }

----------------------------------------------------------------------------
(* Rendering of turns for the model *)

SystemPrompt == <<"You are a helpful assistant running on Cloudflare. Be concise, actionable, and friendly. If you do not know something, say so and suggest next steps.">>

HasImage(message) == "imageDataUrl" \in DOMAIN message

\* the content of a message given to the model: a string, or an array of parts
Parts(parts) == [t |-> "array", parts |-> parts]

toAiMessage(message) ==
    IF message.role = "user" /\ HasImage(message)
    THEN [role |-> "user",
          content |-> Parts(<< [type |-> "text",
                                text |-> IF message.content # <<>> THEN message.content
                                         ELSE <<"Please describe this image.">>],
                               [type |-> "image_url", url |-> message.imageDataUrl] >>)]
    ELSE [role |-> message.role, content |-> Str(message.content)]

\* variant: the text path renders a turn as the vision path does
toTextOnlyMessageAsVision(message) == toAiMessage(message)

toTextOnlyMessage(message) == [role |-> message.role, content |-> Str(message.content)]

\* variant: the vision model is called when any turn of the context has an image
PrimaryCallByContext(nextMessages, imageDataUrl) ==
    LET context == LastN(nextMessages, ContextTurns)
        vision == \E k \in 1..Len(context) : HasImage(context[k])
    IN  [model |-> IF vision THEN VISION_MODEL ELSE TEXT_MODEL,
         messages |-> <<[role |-> "system", content |-> Str(SystemPrompt)]>>
                      \o (IF vision
                          THEN [k \in 1..Len(context) |-> toAiMessage(context[k])]
                          ELSE [k \in 1..Len(context) |-> toTextOnlyMessage(context[k])]),
         max_tokens |-> 512]

\* variant: the whole history is the context
PrimaryCallWholeHistory(nextMessages, imageDataUrl) ==
    [model |-> IF imageDataUrl # <<>> THEN VISION_MODEL ELSE TEXT_MODEL,
     messages |-> <<[role |-> "system", content |-> Str(SystemPrompt)]>>
                  \o (IF imageDataUrl # <<>>
                      THEN [k \in 1..Len(nextMessages) |-> toAiMessage(nextMessages[k])]
                      ELSE [k \in 1..Len(nextMessages) |-> toTextOnlyMessage(nextMessages[k])]),
     max_tokens |-> 512]

\* the arguments of the primary env.AI.run call
PrimaryCall(nextMessages, imageDataUrl) ==
    LET context == LastN(nextMessages, ContextTurns)
    IN  [model |-> IF imageDataUrl # <<>> THEN VISION_MODEL ELSE TEXT_MODEL,
         messages |-> <<[role |-> "system", content |-> Str(SystemPrompt)]>>
                      \o (IF imageDataUrl # <<>>
                          THEN [k \in 1..Len(context) |-> toAiMessage(context[k])]
                          ELSE [k \in 1..Len(context) |-> toTextOnlyMessage(context[k])]),
         max_tokens |-> 512]

\* the arguments of the fallback env.AI.run call
FallbackCall(userText, imageDataUrl) ==
    [model |-> VISION_FALLBACK_MODEL,
     prompt |-> SystemPrompt \o <<"\n\nUser request: ">>
                \o (IF userText # <<>> THEN userText ELSE Placeholder),
     image |-> imageDataUrl]

----------------------------------------------------------------------------
(* The session: ChatAgent *)

\* variant: the state keeps the window that onConnect reads
setStateCapped(next) == messages' = LastN(next, HistoryTurns)

\* this.setState({ messages: next })
setState(next) == messages' = next

\* connection.send(JSON.stringify(msg))
Send(log, c, msg) == Append(log, [conn |-> c, msg |-> msg])

InFlight(r) == r.pc \in {"primary", "fallback"}

\* the invocation returned from a catch block: its turn was given up
GaveUp(r) == r.pc = "done" /\ \A k \in 1..Len(r.results) : ~r.results[k].ok

\* no browser is looked at
NoClient ==
    /\ localStorage = <<>> /\ agentIds = <<>>
    /\ uiMessages = <<>> /\ waitingForReply = FALSE
    /\ inbox = <<>> /\ outbox = <<>>
    /\ effects = <<>> /\ sockets = <<>> /\ wsRef = 0
    /\ reconnectTimerRef = 0 /\ timers = <<>>
    /\ status = <<"Connecting...">> /\ online = FALSE

Init ==
    /\ messages = <<>>
    /\ inv = <<>>
    /\ sent = <<>>
    /\ resets = <<>>
    /\ fresh = FALSE
    /\ turnOf = <<>>
    /\ received = <<>>
    /\ connected = <<>>
    /\ NoClient

\* onMessage up to its validation: the locals of one frame
IsReset(f) == f.json /\ f.p.type = Str(<<"reset">>)
\* variant: the type of the payload is not looked at
IsUserShapeAnyType(f) == f.json /\ ~IsReset(f) /\ f.p.content.t = "string"

IsUserShape(f) == f.json /\ ~IsReset(f) /\ f.p.type = Str(<<"user">>) /\ f.p.content.t = "string"
UserTextOf(f) == Trim(f.p.content.s)
\* variant: any string is taken as the image
ImageOfAnyString(f) == IF f.p.imageDataUrl.t = "string" THEN f.p.imageDataUrl.s ELSE <<>>

\* undefined is the empty sequence: an accepted data URL is never empty
ImageOf(f) == IF isImageDataUrl(f.p.imageDataUrl) THEN f.p.imageDataUrl.s ELSE <<>>
\* variant: an empty message is not turned away
AcceptedUserShape(f) == IsUserShape(f)

Accepted(f) == IsUserShape(f) /\ ~(UserTextOf(f) = <<>> /\ ImageOf(f) = <<>>)

\* variant: the content is the trimmed text, empty or not
UserMessageNoPlaceholder(userText, imageDataUrl) ==
    IF imageDataUrl # <<>>
    THEN [role |-> "user", content |-> userText, imageDataUrl |-> imageDataUrl]
    ELSE [role |-> "user", content |-> userText]

UserMessage(userText, imageDataUrl) ==
    LET content == IF userText # <<>> THEN userText ELSE Placeholder
    IN  IF imageDataUrl # <<>>
        THEN [role |-> "user", content |-> content, imageDataUrl |-> imageDataUrl]
        ELSE [role |-> "user", content |-> content]

AssistantMessage(finalText) == [role |-> "assistant", content |-> finalText]

\* onMessage returns before it changes anything: bad JSON, another type, empty message
OnMessageIgnored(c, f) ==
    /\ ~IsReset(f)
    /\ ~Accepted(f)
    /\ UNCHANGED <<messages, inv, sent, resets, fresh, turnOf>>

\* variant: the reset answers with an empty list and leaves the state as it is
OnMessageResetKeepsState(c, f) ==
    /\ IsReset(f)
    /\ Len(resets) < MaxResets
    /\ sent' = Send(sent, c, [type |-> "history", messages |-> <<>>])
    /\ inv' = [k \in 1..Len(inv) |->
                 IF InFlight(inv[k]) THEN [inv[k] EXCEPT !.resetSeen = TRUE] ELSE inv[k]]
    /\ resets' = Append(resets, c)
    /\ fresh' = TRUE
    /\ UNCHANGED <<messages, turnOf>>

\* onMessage, type = reset
OnMessageReset(c, f) ==
    /\ IsReset(f)
    /\ Len(resets) < MaxResets
    /\ setState(<<>>)
    /\ turnOf' = <<>>
    /\ sent' = Send(sent, c, [type |-> "history", messages |-> <<>>])
    /\ inv' = [k \in 1..Len(inv) |->
                 IF InFlight(inv[k]) THEN [inv[k] EXCEPT !.resetSeen = TRUE] ELSE inv[k]]
    /\ resets' = Append(resets, c)
    /\ fresh' = TRUE

\* variant: the new user turn is put in front of the history
OnMessageUserPrepends(c, f) ==
    /\ Accepted(f)
    /\ Len(inv) < MaxInv
    /\ LET userText == UserTextOf(f)
           imageDataUrl == ImageOf(f)
           nextMessages == <<UserMessage(userText, imageDataUrl)>> \o messages
       IN  /\ setState(nextMessages)
           /\ turnOf' = <<Len(inv) + 1>> \o turnOf
           /\ inv' = Append(inv,
                  [pc |-> "primary", conn |-> c, userText |-> userText,
                   imageDataUrl |-> imageDataUrl, nextMessages |-> nextMessages,
                   calls |-> <<PrimaryCall(nextMessages, imageDataUrl)>>, results |-> <<>>,
                   finalText |-> <<>>, chunks |-> <<>>, k |-> 0, sent |-> <<>>,
                   resetSeen |-> FALSE, afterReset |-> fresh,
                   afterFailure |-> \E k \in 1..Len(inv) : inv[k].conn = c /\ GaveUp(inv[k]),
                   nextTurnOf |-> <<Len(inv) + 1>> \o turnOf])
    /\ fresh' = FALSE
    /\ UNCHANGED <<sent, resets>>

\* onMessage, type = user, up to the await of the primary model call
OnMessageUser(c, f) ==
    /\ Accepted(f)
    /\ Len(inv) < MaxInv
    /\ LET userText == UserTextOf(f)
           imageDataUrl == ImageOf(f)
           nextMessages == Append(messages, UserMessage(userText, imageDataUrl))
       IN  /\ setState(nextMessages)
           /\ turnOf' = Append(turnOf, Len(inv) + 1)
           /\ inv' = Append(inv,
                  [pc |-> "primary", conn |-> c, userText |-> userText,
                   imageDataUrl |-> imageDataUrl, nextMessages |-> nextMessages,
                   calls |-> <<PrimaryCall(nextMessages, imageDataUrl)>>, results |-> <<>>,
                   finalText |-> <<>>, chunks |-> <<>>, k |-> 0, sent |-> <<>>,
                   resetSeen |-> FALSE, afterReset |-> fresh,
                   afterFailure |-> \E k \in 1..Len(inv) : inv[k].conn = c /\ GaveUp(inv[k]),
                   nextTurnOf |-> Append(turnOf, Len(inv) + 1)])
    /\ fresh' = FALSE
    /\ UNCHANGED <<sent, resets>>

\* what a model call resolved with, or the message of what it rejected with
Resolved(value) == [ok |-> TRUE, value |-> value]
Rejected(msg) == [ok |-> FALSE, msg |-> msg]

\* variant: the reply is appended to the state read again after the call
CompleteRereads(i, result, assistantText) ==
    LET r == inv[i]
        finalText == JsString(assistantText)
        full == Append(messages, AssistantMessage(finalText))
        chunks == chunkByWords(finalText, WordsPerChunk)
    IN  /\ setState(full)
        /\ turnOf' = Append(turnOf, 0)
        /\ inv' = [inv EXCEPT ![i] =
                     [r EXCEPT !.pc = "sleep", !.results = Append(@, result),
                               !.finalText = finalText, !.chunks = chunks, !.k = 1,
                               !.sent = Send(Send(@, r.conn, [type |-> "assistant_start"]),
                                             r.conn, [type |-> "assistant_chunk", content |-> chunks[1]])]]
        /\ UNCHANGED <<sent, resets, fresh>>

\* variant: the messages given to the model, system instruction included, are persisted
CompleteWithSystem(i, result, assistantText) ==
    LET r == inv[i]
        finalText == JsString(assistantText)
        full == <<[role |-> "system", content |-> SystemPrompt]>>
                \o Append(r.nextMessages, AssistantMessage(finalText))
        chunks == chunkByWords(finalText, WordsPerChunk)
    IN  /\ setState(full)
        /\ turnOf' = <<0>> \o Append(r.nextTurnOf, 0)
        /\ inv' = [inv EXCEPT ![i] =
                     [r EXCEPT !.pc = "sleep", !.results = Append(@, result),
                               !.finalText = finalText, !.chunks = chunks, !.k = 1,
                               !.sent = Send(Send(@, r.conn, [type |-> "assistant_start"]),
                                             r.conn, [type |-> "assistant_chunk", content |-> chunks[1]])]]
        /\ UNCHANGED <<sent, resets, fresh>>

\* onMessage from "const finalText" to the first "await sleep(24)"
Complete(i, result, assistantText) ==
    LET r == inv[i]
        finalText == JsString(assistantText)
        full == Append(r.nextMessages, AssistantMessage(finalText))
        chunks == chunkByWords(finalText, WordsPerChunk)
    IN  /\ setState(full)
        /\ turnOf' = Append(r.nextTurnOf, 0)
        /\ inv' = [inv EXCEPT ![i] =
                     [r EXCEPT !.pc = "sleep", !.results = Append(@, result),
                               !.finalText = finalText, !.chunks = chunks, !.k = 1,
                               !.sent = Send(Send(@, r.conn, [type |-> "assistant_start"]),
                                             r.conn, [type |-> "assistant_chunk", content |-> chunks[1]])]]
        /\ UNCHANGED <<sent, resets, fresh>>

\* variant: the closing messages go to the connection of the session's first invocation
SendDoneToFirst(r, text) ==
    Send(Send(r.sent, inv[1].conn, [type |-> "assistant_done", content |-> text]),
         inv[1].conn, [type |-> "assistant", content |-> text])

\* assistant_done and assistant with the same text, on the invocation's connection
SendDone(r, text) ==
    Send(Send(r.sent, r.conn, [type |-> "assistant_done", content |-> text]),
         r.conn, [type |-> "assistant", content |-> text])

\* variant: the catch blocks return without a word to the client
GiveUpSilently(i, result, text) ==
    /\ inv' = [inv EXCEPT ![i].pc = "done", ![i].results = Append(@, result)]
    /\ UNCHANGED <<messages, sent, resets, fresh, turnOf>>

\* the catch blocks that give the turn up: two sends and return
GiveUp(i, result, text) ==
    /\ inv' = [inv EXCEPT ![i].pc = "done", ![i].results = Append(@, result),
                          ![i].sent = SendDone(inv[i], text)]
    /\ UNCHANGED <<messages, sent, resets, fresh, turnOf>>

\* variant: the test forgets the image
NeedsLicensePhraseOnly(r, msg) == Includes(msg, LicensePhrase)

\* variant: the test forgets the error text
NeedsLicenseAnyError(r, msg) == r.imageDataUrl # <<>>

\* if (imageDataUrl && msg.includes("submit the prompt 'agree'"))
NeedsLicense(r, msg) == r.imageDataUrl # <<>> /\ Includes(msg, LicensePhrase)

\* the primary env.AI.run resolves
PrimaryResolved(i, aiResp) ==
    /\ inv[i].pc = "primary"
    /\ Complete(i, Resolved(aiResp), ExtractPrimary(aiResp))

\* the primary env.AI.run rejects with the license message and an image is attached:
\* the fallback model is called
PrimaryRejectedLicense(i, msg) ==
    /\ inv[i].pc = "primary"
    /\ NeedsLicense(inv[i], msg)
    /\ inv' = [inv EXCEPT ![i].pc = "fallback", ![i].results = Append(@, Rejected(msg)),
                          ![i].calls = Append(@, FallbackCall(inv[i].userText, inv[i].imageDataUrl))]
    /\ UNCHANGED <<messages, sent, resets, fresh, turnOf>>

\* the primary env.AI.run rejects otherwise
PrimaryRejectedOther(i, msg) ==
    /\ inv[i].pc = "primary"
    /\ ~NeedsLicense(inv[i], msg)
    /\ GiveUp(i, Rejected(msg), GenericErrorText)

\* the fallback env.AI.run resolves
FallbackResolved(i, fallbackResp) ==
    /\ inv[i].pc = "fallback"
    /\ Complete(i, Resolved(fallbackResp), ExtractFallback(fallbackResp))

\* variant: the inner catch sends the retry text of the outer one
FallbackRejectedRetryText(i, msg) ==
    /\ inv[i].pc = "fallback"
    /\ GiveUp(i, Rejected(msg), GenericErrorText)

\* the fallback env.AI.run rejects
FallbackRejected(i, msg) ==
    /\ inv[i].pc = "fallback"
    /\ GiveUp(i, Rejected(msg), LicenseErrorText)

\* sleep(24) ends and another chunk is left: the next turn of the for loop
NextChunk(i) ==
    /\ inv[i].pc = "sleep"
    /\ inv[i].k < Len(inv[i].chunks)
    /\ inv' = [inv EXCEPT ![i].k = @ + 1,
                          ![i].sent = Send(@, inv[i].conn,
                                           [type |-> "assistant_chunk",
                                            content |-> inv[i].chunks[inv[i].k + 1]])]
    /\ UNCHANGED <<messages, sent, resets, fresh, turnOf>>

\* variant: the stream ends with assistant_done alone
FinishDoneOnly(i) ==
    /\ inv[i].pc = "sleep"
    /\ inv[i].k = Len(inv[i].chunks)
    /\ inv' = [inv EXCEPT ![i].pc = "done",
                          ![i].sent = Send(@, inv[i].conn,
                                           [type |-> "assistant_done", content |-> inv[i].finalText])]
    /\ UNCHANGED <<messages, sent, resets, fresh, turnOf>>

\* sleep(24) ends after the last chunk: the two closing sends
Finish(i) ==
    /\ inv[i].pc = "sleep"
    /\ inv[i].k = Len(inv[i].chunks)
    /\ inv' = [inv EXCEPT ![i].pc = "done", ![i].sent = SendDone(inv[i], inv[i].finalText)]
    /\ UNCHANGED <<messages, sent, resets, fresh, turnOf>>

Invs == 1..Len(inv)

\* the session from its creation on; the frames handled are not recorded
Next ==
    \/ \E c \in Conns, f \in SessionFrames : OnMessageIgnored(c, f) /\ UNCHANGED <<received, connected, clientVars>>
    \/ \E c \in Conns, f \in SessionFrames : OnMessageReset(c, f) /\ UNCHANGED <<received, connected, clientVars>>
    \/ \E c \in Conns, f \in SessionFrames : OnMessageUser(c, f) /\ UNCHANGED <<received, connected, clientVars>>
    \/ \E i \in Invs, aiResp \in PrimaryResponses :
          PrimaryResolved(i, aiResp) /\ UNCHANGED <<received, connected, clientVars>>
    \/ \E i \in Invs, msg \in Errors : PrimaryRejectedLicense(i, msg) /\ UNCHANGED <<received, connected, clientVars>>
    \/ \E i \in Invs, msg \in Errors : PrimaryRejectedOther(i, msg) /\ UNCHANGED <<received, connected, clientVars>>
    \/ \E i \in Invs, fallbackResp \in FallbackResponses :
          FallbackResolved(i, fallbackResp) /\ UNCHANGED <<received, connected, clientVars>>
    \/ \E i \in Invs, msg \in Errors : FallbackRejected(i, msg) /\ UNCHANGED <<received, connected, clientVars>>
    \/ \E i \in Invs : NextChunk(i) /\ UNCHANGED <<received, connected, clientVars>>
    \/ \E i \in Invs : Finish(i) /\ UNCHANGED <<received, connected, clientVars>>

Spec == Init /\ [][Next]_vars

----------------------------------------------------------------------------
(* The session when every model call returns or fails and every sleep ends:    *)
(* an invocation that is suspended is resumed                                   *)

\* invocation i is resumed at the await it is suspended at
Resume(i) ==
    /\ i \in Invs
    /\ \/ \E msg \in Errors : PrimaryRejectedOther(i, msg)
       \/ \E msg \in Errors : PrimaryRejectedLicense(i, msg)
       \/ \E aiResp \in PrimaryResponses : PrimaryResolved(i, aiResp)
       \/ \E msg \in Errors : FallbackRejected(i, msg)
       \/ \E fallbackResp \in FallbackResponses : FallbackResolved(i, fallbackResp)
       \/ NextChunk(i)
       \/ Finish(i)
    /\ UNCHANGED <<received, connected, clientVars>>

SpecFair == Init /\ [][Next]_vars /\ \A i \in 1..MaxInv : WF_vars(Resume(i))

----------------------------------------------------------------------------

(* The session when connections drop.  What connection.send does on a closed  *)
(* connection is the runtime's: it returns, and the handler goes on as in     *)
(* Next, or it throws, and the handler ends where it is.                      *)

\* connection.send throws in a catch block or in the stream: onMessage ends
SendThrows(i, results) ==
    /\ inv' = [inv EXCEPT ![i].pc = "thrown", ![i].results = results]
    /\ UNCHANGED <<messages, sent, resets, fresh, turnOf>>

\* variant: the reply is sent before it is saved, so the throw comes first
CompleteDroppedUnsaved(i, result, assistantText) ==
    /\ inv' = [inv EXCEPT ![i].pc = "thrown", ![i].results = Append(@, result),
                          ![i].finalText = JsString(assistantText)]
    /\ UNCHANGED <<messages, sent, resets, fresh, turnOf>>

\* onMessage from "const finalText" to the send of assistant_start, which throws
CompleteDropped(i, result, assistantText) ==
    LET r == inv[i]
        finalText == JsString(assistantText)
        full == Append(r.nextMessages, AssistantMessage(finalText))
    IN  /\ setState(full)
        /\ turnOf' = Append(r.nextTurnOf, 0)
        /\ inv' = [inv EXCEPT ![i].pc = "thrown", ![i].results = Append(@, result),
                              ![i].finalText = finalText]
        /\ UNCHANGED <<sent, resets, fresh>>

PrimaryResolvedDropped(i, aiResp) ==
    /\ inv[i].pc = "primary"
    /\ CompleteDropped(i, Resolved(aiResp), ExtractPrimary(aiResp))

FallbackResolvedDropped(i, fallbackResp) ==
    /\ inv[i].pc = "fallback"
    /\ CompleteDropped(i, Resolved(fallbackResp), ExtractFallback(fallbackResp))

PrimaryRejectedOtherDropped(i, msg) ==
    /\ inv[i].pc = "primary"
    /\ ~NeedsLicense(inv[i], msg)
    /\ SendThrows(i, Append(inv[i].results, Rejected(msg)))

FallbackRejectedDropped(i, msg) ==
    /\ inv[i].pc = "fallback"
    /\ SendThrows(i, Append(inv[i].results, Rejected(msg)))

\* sleep(24) ends and the next send, of a chunk or of assistant_done, throws
StreamDropped(i) ==
    /\ inv[i].pc = "sleep"
    /\ SendThrows(i, inv[i].results)

NextDrop ==
    \/ Next
    \/ \E i \in Invs, aiResp \in PrimaryResponses :
          PrimaryResolvedDropped(i, aiResp) /\ UNCHANGED <<received, connected, clientVars>>
    \/ \E i \in Invs, fallbackResp \in FallbackResponses :
          FallbackResolvedDropped(i, fallbackResp) /\ UNCHANGED <<received, connected, clientVars>>
    \/ \E i \in Invs, msg \in Errors :
          PrimaryRejectedOtherDropped(i, msg) /\ UNCHANGED <<received, connected, clientVars>>
    \/ \E i \in Invs, msg \in Errors : FallbackRejectedDropped(i, msg) /\ UNCHANGED <<received, connected, clientVars>>
    \/ \E i \in Invs : StreamDropped(i) /\ UNCHANGED <<received, connected, clientVars>>

SpecDrop == Init /\ [][NextDrop]_vars

----------------------------------------------------------------------------
(* The handler on a session that already has a history: onMessage up to its  *)
(* first await, with the frame it was given recorded                         *)

MaxPast == 14

\* the k-th turn of a history left by earlier turns: text and image messages in
\* turn, each answered
PastTurn(k) ==
    CASE k % 4 = 1 -> UserMessage(<<"h", "i">>, <<>>)
      [] k % 4 = 2 -> AssistantMessage(<<"o", "k">>)
      [] k % 4 = 3 -> UserMessage(<<>>, PngUrl)
      [] OTHER -> AssistantMessage(<<"c", "a", "t">>)

Past(n) == [k \in 1..n |-> PastTurn(k)]

\* the lengths of history the object starts with: none, and those around the
\* context window
PastLengths == {0} \cup ((MaxPast - 3)..MaxPast)

\* this.state.messages as the session storage holds it when the object starts
InitFrames ==
    /\ messages \in {Past(n) : n \in PastLengths}
    /\ turnOf = [k \in 1..Len(messages) |-> 0]
    /\ inv = <<>>
    /\ sent = <<>>
    /\ resets = <<>>
    /\ fresh = FALSE
    /\ received = <<>>
    /\ connected = <<>>
    /\ NoClient

\* onMessage was given frame f
Received(f) == received' = <<f>> /\ UNCHANGED <<connected, clientVars>>

NextFrames ==
    \/ \E c \in Conns, f \in Frames : OnMessageIgnored(c, f) /\ Received(f)
    \/ \E c \in Conns, f \in Frames : OnMessageReset(c, f) /\ Received(f)
    \/ \E c \in Conns, f \in Frames : OnMessageUser(c, f) /\ Received(f)

SpecFrames == InitFrames /\ [][NextFrames]_vars

----------------------------------------------------------------------------
(* The session with connections opening, on histories around the two windows *)

MaxConnects == 1
MaxStored == 51

\* variant: the whole history is sent
OnConnectWholeHistory(c) ==
    /\ Len(connected) < MaxConnects
    /\ connected' = Append(connected, c)
    /\ sent' = Send(sent, c, [type |-> "history", messages |-> messages])
    /\ UNCHANGED <<messages, inv, resets, fresh, turnOf>>

\* onConnect
OnConnect(c) ==
    /\ Len(connected) < MaxConnects
    /\ connected' = Append(connected, c)
    /\ sent' = Send(sent, c, [type |-> "history", messages |-> LastN(messages, HistoryTurns)])
    /\ UNCHANGED <<messages, inv, resets, fresh, turnOf>>

\* the lengths of history the object starts with: none, and those around the
\* window of the model call and the window of onConnect
StoredLengths ==
    {0, ContextTurns - 1, ContextTurns + 1} \cup ((MaxStored - 2)..MaxStored)

InitConnect ==
    /\ messages \in {Past(n) : n \in StoredLengths}
    /\ turnOf = [k \in 1..Len(messages) |-> 0]
    /\ inv = <<>>
    /\ sent = <<>>
    /\ resets = <<>>
    /\ fresh = FALSE
    /\ received = <<>>
    /\ connected = <<>>
    /\ NoClient

\* the messages that are accepted, one of each kind
TurnFrames == { TextFrame, ImageFrame }

NextConnect ==
    \/ \E c \in Conns : OnConnect(c) /\ UNCHANGED <<received, clientVars>>
    \/ \E c \in Conns, f \in TurnFrames :
          OnMessageUser(c, f) /\ UNCHANGED <<received, connected, clientVars>>
    \/ \E i \in Invs, aiResp \in PrimaryResponses :
          PrimaryResolved(i, aiResp) /\ UNCHANGED <<received, connected, clientVars>>
    \/ \E i \in Invs : NextChunk(i) /\ UNCHANGED <<received, connected, clientVars>>
    \/ \E i \in Invs : Finish(i) /\ UNCHANGED <<received, connected, clientVars>>

SpecConnect == InitConnect /\ [][NextConnect]_vars

----------------------------------------------------------------------------

(* One turn of the session with the replies the model can give: texts of up to *)
(* MaxWords words in several layouts, and responses of every shape             *)

MaxWords == 7

\* the k-th word of a reply
Word(k) == <<"w", ToString(k)>>

\* a text of n words: lead, the words with sep between them, trail
RECURSIVE TextFrom(_, _, _)
TextFrom(k, n, sep) ==
    IF k > n THEN <<>>
    ELSE IF k = n THEN Word(k)
    ELSE Word(k) \o sep \o TextFrom(k + 1, n, sep)

Text(n, lead, sep, trail) == lead \o TextFrom(1, n, sep) \o trail

Leads == { <<>>, <<" ">> }
Seps == { <<" ">>, <<" ", "\n">>, <<"\t">> }
Trails == { <<>>, <<"\n">> }

ReplyTexts ==
    { Text(n, lead, sep, trail) : n \in 0..MaxWords, lead \in Leads, sep \in Seps, trail \in Trails }

\* the objects with any of the four fields, each empty or not
ResponseObjects ==
    { Obj(f) : f \in UNION { [names -> {<<>>, <<"x">>}] :
                               names \in SUBSET {"response", "result", "output_text", "description"} } }

\* what env.AI.run resolves with in this specification
ReplyResponses ==
    {Null, Absent} \cup {Str(t) : t \in ReplyTexts} \cup {Obj([response |-> t]) : t \in ReplyTexts}
    \cup ResponseObjects

NextReplies ==
    \/ \E c \in Conns, f \in TurnFrames :
          inv = <<>> /\ OnMessageUser(c, f) /\ UNCHANGED <<received, connected, clientVars>>
    \/ \E i \in Invs, aiResp \in ReplyResponses :
          PrimaryResolved(i, aiResp) /\ UNCHANGED <<received, connected, clientVars>>
    \/ \E i \in Invs, msg \in Errors :
          PrimaryRejectedLicense(i, msg) /\ UNCHANGED <<received, connected, clientVars>>
    \/ \E i \in Invs, fallbackResp \in ReplyResponses :
          FallbackResolved(i, fallbackResp) /\ UNCHANGED <<received, connected, clientVars>>
    \/ \E i \in Invs : NextChunk(i) /\ UNCHANGED <<received, connected, clientVars>>
    \/ \E i \in Invs : Finish(i) /\ UNCHANGED <<received, connected, clientVars>>

SpecReplies == Init /\ [][NextReplies]_vars

----------------------------------------------------------------------------

(* The browser: the page is loaded again and again, and each load calls        *)
(* getAgentId once (useState(() => getAgentId())).  A call runs to its end on   *)
(* the page's thread.  Nothing else writes the item; the user may clear the     *)
(* storage of the site.                                                         *)

MaxVisits == 4

\* what crypto.randomUUID() may return
Ids == { <<"u1">>, <<"u2">>, <<"u3">> }

\* variant: every load makes a new identifier
getAgentIdAlwaysNew(next) ==
    /\ Len(agentIds) < MaxVisits
    /\ localStorage' = <<next>>
    /\ agentIds' = Append(agentIds, next)

\* getAgentId(), next being what crypto.randomUUID() returns if it is called
getAgentId(next) ==
    /\ Len(agentIds) < MaxVisits
    /\ LET existing == localStorage
       IN  IF existing # <<>> /\ existing[1] # <<>>
           THEN /\ agentIds' = Append(agentIds, existing[1])
                /\ UNCHANGED localStorage
           ELSE /\ localStorage' = <<next>>
                /\ agentIds' = Append(agentIds, next)

\* the user clears the data of the site
ClearStorage ==
    /\ localStorage # <<>>
    /\ localStorage' = <<>>
    /\ UNCHANGED agentIds

sessionVars == <<messages, inv, sent, resets, fresh, turnOf, received, connected>>

NextClient ==
    \/ \E next \in Ids : getAgentId(next) /\ UNCHANGED <<sessionVars, uiVars, loopVars>>
    \/ ClearStorage /\ UNCHANGED <<sessionVars, uiVars, loopVars>>

SpecClient == Init /\ [][NextClient]_vars

----------------------------------------------------------------------------

(* The page and the session together: one page, one socket that stays open,    *)
(* text messages, a model that answers.  A frame one side sends arrives at the *)
(* other later, in the order of sending.                                       *)

\* the connection of the page's socket
PageConn == "c1"

\* what the user has typed when sendMessage is called
Inputs == { <<" ", "h", "i", " ">>, <<"y", "o">>, <<" ">> }

\* the frames the session passes to connection.send for c in this step, in order
NewSent(i) ==
    IF i <= Len(inv)
    THEN SubSeq(inv'[i].sent, Len(inv[i].sent) + 1, Len(inv'[i].sent))
    ELSE inv'[i].sent

SentNow(c) ==
    (IF Len(sent') > Len(sent) /\ sent'[Len(sent')].conn = c
     THEN <<sent'[Len(sent')].msg>> ELSE <<>>)
    \o (IF \E i \in 1..Len(inv') : NewSent(i) # <<>> /\ inv'[i].conn = c
        THEN LET i == CHOOSE j \in 1..Len(inv') : NewSent(j) # <<>> /\ inv'[j].conn = c
             IN  [k \in 1..Len(NewSent(i)) |-> NewSent(i)[k].msg]
        ELSE <<>>)

\* what the session sends goes on its way to the page
Deliver == inbox' = inbox \o SentNow(PageConn)

\* the replies that have arrived at the page
RepliesArrived ==
    Cardinality({i \in 1..Len(inv) : inv[i].pc = "done"})
    - Cardinality({k \in 1..Len(inbox) : inbox[k].type = "assistant"})

\* the socket opens; the session's onConnect runs
SocketOpen ==
    /\ connected = <<>>
    /\ OnConnect(PageConn)
    /\ Deliver
    /\ UNCHANGED <<received, storageVars, loopVars, uiMessages, waitingForReply, outbox>>

\* sendMessage(), by a user who sends only after the reply to the last message
\* has arrived
sendMessage(input) ==
    LET text == Trim(input)
    IN  /\ connected # <<>>
        /\ text # <<>>
        /\ Len(inv) + Len(outbox) < MaxInv
        /\ RepliesArrived = Len(inv) + Len(outbox)
        /\ uiMessages' = Append(uiMessages, [role |-> "user", content |-> text])
        /\ waitingForReply' = TRUE
        /\ outbox' = Append(outbox, Payload(Str(<<"user">>), Str(text), Absent))
        /\ UNCHANGED inbox

\* ws.onmessage
OnWsMessage ==
    /\ inbox # <<>>
    /\ inbox' = Tail(inbox)
    /\ LET payload == Head(inbox)
       IN  IF payload.type = "history"
           THEN uiMessages' = payload.messages /\ waitingForReply' = FALSE
           ELSE IF payload.type = "assistant"
           THEN /\ uiMessages' = Append(uiMessages,
                                        [role |-> "assistant", content |-> payload.content])
                /\ waitingForReply' = FALSE
           ELSE UNCHANGED <<uiMessages, waitingForReply>>
    /\ UNCHANGED outbox

\* the frame of the page arrives: onMessage up to its first await
FrameArrives ==
    /\ outbox # <<>>
    /\ outbox' = Tail(outbox)
    /\ OnMessageUser(PageConn, Head(outbox))
    /\ Deliver
    /\ UNCHANGED <<received, connected, storageVars, loopVars, uiMessages, waitingForReply>>

\* a step of an invocation, with what it sends
SessionStep(i) ==
    /\ \/ \E aiResp \in PrimaryResponses : PrimaryResolved(i, aiResp)
       \/ NextChunk(i)
       \/ Finish(i)
    /\ Deliver
    /\ UNCHANGED <<received, connected, storageVars, loopVars, uiMessages, waitingForReply, outbox>>

NextChat ==
    \/ SocketOpen
    \/ \E input \in Inputs : sendMessage(input) /\ UNCHANGED <<sessionVars, storageVars, loopVars>>
    \/ OnWsMessage /\ UNCHANGED <<sessionVars, storageVars, loopVars>>
    \/ FrameArrives
    \/ \E i \in Invs : SessionStep(i)

SpecChat == Init /\ [][NextChat]_vars

----------------------------------------------------------------------------

(* The page's connection effect: connect, the socket's events, the reconnect   *)
(* timer and the cleanup.  An event handler runs to its end.  The effect runs  *)
(* when the page mounts and again after a cleanup (React.StrictMode, a new URL) *)

MaxEffects == 2
MaxSockets == 4

RECONNECT_MS == 850

\* the run of the effect that has not been cleaned up, 0 if there is none
LiveEffect == IF effects # <<>> /\ ~effects[Len(effects)] THEN Len(effects) ELSE 0

\* the timeouts after clearReconnectTimer()
ClearedTimers ==
    IF reconnectTimerRef # 0
    THEN [timers EXCEPT ![reconnectTimerRef].state = IF @ = "pending" THEN "cleared" ELSE @]
    ELSE timers

\* connect() of effect run e, called when the timeouts are tms
connect(e, tms) ==
    /\ Len(sockets) < MaxSockets
    /\ timers' = tms
    /\ reconnectTimerRef' = 0
    /\ status' = <<"Connecting...">>
    /\ online' = FALSE
    /\ sockets' = Append(sockets, [readyState |-> "connecting", effect |-> e])
    /\ wsRef' = Len(sockets) + 1

\* the effect runs: closedByCleanup = false, connect()
Mount ==
    /\ LiveEffect = 0
    /\ Len(effects) < MaxEffects
    /\ effects' = Append(effects, FALSE)
    /\ connect(Len(effects) + 1, ClearedTimers)

\* the cleanup of the effect
Cleanup ==
    /\ LiveEffect # 0
    /\ effects' = [effects EXCEPT ![LiveEffect] = TRUE]
    /\ timers' = ClearedTimers
    /\ reconnectTimerRef' = 0
    /\ sockets' = IF wsRef # 0 /\ sockets[wsRef].readyState \in {"connecting", "open"}
                  THEN [sockets EXCEPT ![wsRef].readyState = "closing"]
                  ELSE sockets
    /\ wsRef' = 0
    /\ UNCHANGED <<status, online>>

\* ws.onopen of socket s
OnOpen(s) ==
    /\ sockets[s].readyState = "connecting"
    /\ sockets' = [sockets EXCEPT ![s].readyState = "open"]
    /\ status' = <<"Live">>
    /\ online' = TRUE
    /\ UNCHANGED <<effects, wsRef, reconnectTimerRef, timers>>

\* variant: ws.onclose does not look at closedByCleanup
oncloseAlwaysReconnects(s) ==
    /\ status' = <<"Reconnecting...">>
    /\ online' = FALSE
    /\ timers' = Append(ClearedTimers,
                        [state |-> "pending", delay |-> RECONNECT_MS,
                         effect |-> sockets[s].effect])
    /\ reconnectTimerRef' = Len(timers) + 1

\* ws.onclose of socket s
onclose(s) ==
    /\ status' = <<"Reconnecting...">>
    /\ online' = FALSE
    /\ IF effects[sockets[s].effect]
       THEN UNCHANGED <<timers, reconnectTimerRef>>
       ELSE /\ timers' = Append(ClearedTimers,
                                [state |-> "pending", delay |-> RECONNECT_MS,
                                 effect |-> sockets[s].effect])
            /\ reconnectTimerRef' = Len(timers) + 1

\* ws.onerror of socket s, then its ws.close()
OnError(s) ==
    /\ sockets[s].readyState \in {"connecting", "open"}
    /\ status' = <<"Connection issue">>
    /\ online' = FALSE
    /\ sockets' = [sockets EXCEPT ![s].readyState = "closing"]
    /\ UNCHANGED <<effects, wsRef, reconnectTimerRef, timers>>

\* socket s is closed, by the peer or at the end of a close() of the page
OnClose(s) ==
    /\ sockets[s].readyState # "closed"
    /\ sockets' = [sockets EXCEPT ![s].readyState = "closed"]
    /\ onclose(s)
    /\ UNCHANGED <<effects, wsRef>>

\* the timeout t runs connect
TimerFires(t) ==
    /\ timers[t].state = "pending"
    /\ connect(timers[t].effect, [ClearedTimers EXCEPT ![t].state = "fired"])
    /\ UNCHANGED effects

NextLoop ==
    \/ Mount /\ UNCHANGED <<sessionVars, storageVars, uiVars>>
    \/ Cleanup /\ UNCHANGED <<sessionVars, storageVars, uiVars>>
    \/ \E s \in 1..Len(sockets) : OnOpen(s) /\ UNCHANGED <<sessionVars, storageVars, uiVars>>
    \/ \E s \in 1..Len(sockets) : OnError(s) /\ UNCHANGED <<sessionVars, storageVars, uiVars>>
    \/ \E s \in 1..Len(sockets) : OnClose(s) /\ UNCHANGED <<sessionVars, storageVars, uiVars>>
    \/ \E t \in 1..Len(timers) : TimerFires(t) /\ UNCHANGED <<sessionVars, storageVars, uiVars>>

SpecLoop == Init /\ [][NextLoop]_vars

----------------------------------------------------------------------------

(* Vocabulary of the properties *)

Last(s) == s[Len(s)]
IsPrefix(a, b) == Len(a) <= Len(b) /\ SubSeq(b, 1, Len(a)) = a
NumRole(s, role) == Cardinality({k \in 1..Len(s) : s[k].role = role})
TypesOf(log) == [k \in 1..Len(log) |-> log[k].msg.type]

AllDone == \A i \in Invs : inv[i].pc = "done"
SomeCallFailed == \E i \in Invs : \E k \in 1..Len(inv[i].results) : ~inv[i].results[k].ok
Succeeded(r) == \E k \in 1..Len(r.results) : r.results[k].ok

\* start was sent and assistant_done was not
StreamOpen(r) ==
    /\ \E k \in 1..Len(r.sent) : r.sent[k].msg.type = "assistant_start"
    /\ \A k \in 1..Len(r.sent) : r.sent[k].msg.type # "assistant_done"

\* the step in which invocation i gets the outcome of its n-th model call
GetsResult(i, n) == Len(inv[i].results) = n - 1 /\ Len(inv'[i].results) = n

\* the primary call failed and the failure is not the licensing condition with an image
PrimaryFailedPlainly(r) ==
    /\ Len(r.results) >= 1
    /\ ~r.results[1].ok
    /\ ~(r.imageDataUrl # <<>> /\ Includes(r.results[1].msg, LicensePhrase))

\* the two messages of a turn that was given up
ErrorPair(c, text) ==
    << [conn |-> c, msg |-> [type |-> "assistant_done", content |-> text]],
       [conn |-> c, msg |-> [type |-> "assistant", content |-> text]] >>

\* start, one or more chunks, assistant_done and assistant, both carrying text
IsReplyStream(log, text) ==
    LET n == Len(log)
    IN  /\ n >= 4
        /\ log[1].msg = [type |-> "assistant_start"]
        /\ \A k \in 2..(n - 2) : log[k].msg.type = "assistant_chunk"
        /\ log[n - 1].msg = [type |-> "assistant_done", content |-> text]
        /\ log[n].msg = [type |-> "assistant", content |-> text]

\* start and one or more chunks so far
IsOpenStream(log) ==
    /\ Len(log) >= 2
    /\ log[1].msg = [type |-> "assistant_start"]
    /\ \A k \in 2..Len(log) : log[k].msg.type = "assistant_chunk"

----------------------------------------------------------------------------
(* C1..C10 *)

\* C1: with no reset, once every invocation has finished the persisted history holds
\* exactly N user turns and at most N assistant turns for N accepted user messages,
\* and fewer than N assistant turns only if a model call failed.
C1_TurnCounts ==
    (resets = <<>> /\ AllDone) =>
        /\ NumRole(messages, "user") = Len(inv)
        /\ NumRole(messages, "assistant") <= Len(inv)
        /\ (NumRole(messages, "assistant") < Len(inv) => SomeCallFailed)

\* C2: every change of the persisted sequence extends it (the old sequence is a
\* prefix of the new one) or is the replacement by the empty sequence of a reset.
C2_AppendOnly ==
    [][ \/ IsPrefix(messages, messages')
        \/ (messages' = <<>> /\ Len(resets') = Len(resets) + 1) ]_vars

\* C3: when a reset was processed while a user turn's model call was in flight and
\* the call then succeeds, the persisted history becomes the sequence captured
\* before the call followed by the assistant turn.
C3_ResetOverwritten ==
    [][ \A i \in Invs :
          (inv[i].resetSeen /\ InFlight(inv[i]) /\ inv'[i].pc = "sleep") =>
              messages' = Append(inv[i].nextMessages, AssistantMessage(inv'[i].finalText)) ]_vars

\* a reset emptied a history of two turns while the third was in flight, and the
\* completion of that turn brought all four back
C3_Witness ==
    \E i \in Invs :
        /\ inv[i].resetSeen
        /\ inv[i].pc = "sleep"
        /\ Len(inv[i].nextMessages) = 3
        /\ messages = Append(inv[i].nextMessages, AssistantMessage(inv[i].finalText))

\* C4: at most one reply stream is open in a session: between the assistant_start of
\* one reply and its assistant_done no other reply sends assistant_start or a chunk.
C4_OneActiveStream ==
    \A i, j \in Invs : i # j => ~(StreamOpen(inv[i]) /\ StreamOpen(inv[j]))

\* C5: the first user message accepted after a reset has its user turn at index 0 of
\* the persisted history, and keeps it there when its reply is persisted (the reply
\* is appended to the sequence captured at acceptance).
C5_FreshAfterReset ==
    \A i \in Invs : inv[i].afterReset => Len(inv[i].nextMessages) = 1

\* C6: processing a reset empties the persisted sequence in that step, sends exactly
\* one history message with an empty list, on the connection that sent the reset,
\* and makes no model call (and nothing else is sent).
C6_ResetStep ==
    [][ Len(resets') = Len(resets) + 1 =>
          /\ messages' = <<>>
          /\ sent' = Append(sent, [conn |-> Last(resets'),
                                   msg |-> [type |-> "history", messages |-> <<>>]])
          /\ Len(inv') = Len(inv)
          /\ \A i \in Invs : inv'[i].calls = inv[i].calls /\ inv'[i].sent = inv[i].sent ]_vars

\* a reset was processed while a turn was in flight (so the history was not empty)
\* and the history is empty
C6_Witness ==
    \E i \in Invs : inv[i].resetSeen /\ InFlight(inv[i]) /\ messages = <<>> /\ Len(sent) = 1

\* C7: a user message whose model call succeeds is answered by assistant_start, one
\* or more assistant_chunk, one assistant_done and one assistant, in this order; the
\* last two carry the final text, which is the content of the assistant turn that
\* was persisted.
C7_ShapeNow ==
    \A i \in Invs :
        Succeeded(inv[i]) =>
            /\ inv[i].pc \in {"sleep", "done"}
            /\ inv[i].pc = "sleep" => IsOpenStream(inv[i].sent)
            /\ inv[i].pc = "done" => IsReplyStream(inv[i].sent, inv[i].finalText)

C7_PersistStep ==
    \A i \in Invs :
        (InFlight(inv[i]) /\ Succeeded(inv'[i])) =>
            /\ messages' # <<>>
            /\ Last(messages') = [role |-> "assistant", content |-> inv'[i].finalText]

C7_ReplyStream == []C7_ShapeNow /\ [][C7_PersistStep]_vars

\* a reply of two chunks was sent to its end
C7_Witness ==
    \E i \in Invs :
        /\ inv[i].pc = "done"
        /\ Succeeded(inv[i])
        /\ TypesOf(inv[i].sent) = <<"assistant_start", "assistant_chunk", "assistant_chunk",
                                    "assistant_done", "assistant">>

\* C8: when the primary call fails and the failure is not the licensing condition
\* with an image, no further model call is made, the step persists nothing, and
\* exactly assistant_done and assistant with the retry text are sent.
C8_Now ==
    \A i \in Invs :
        PrimaryFailedPlainly(inv[i]) =>
            /\ inv[i].pc = "done"
            /\ Len(inv[i].calls) = 1
            /\ Len(inv[i].results) = 1
            /\ inv[i].sent = ErrorPair(inv[i].conn, GenericErrorText)

C8_Step ==
    \A i \in Invs :
        (GetsResult(i, 1) /\ PrimaryFailedPlainly(inv'[i])) => messages' = messages

C8_GenericFailure == []C8_Now /\ [][C8_Step]_vars

\* the licensing message without an image is a plain failure
C8_Witness ==
    \E i \in Invs :
        /\ PrimaryFailedPlainly(inv[i])
        /\ inv[i].imageDataUrl = <<>>
        /\ Includes(inv[i].results[1].msg, LicensePhrase)
        /\ Last(messages).role = "user"

\* C9: the fallback model is called if and only if the primary call failed, the
\* message carried an accepted image and the error text contains the licensing
\* phrase; it is called at most once, a user message causes at most two model calls,
\* and a successful fallback reply is persisted and streamed like a primary reply.
C9_Now ==
    \A i \in Invs :
        LET r == inv[i]
        IN  /\ Len(r.calls) \in {1, 2}
            /\ Len(r.results) <= Len(r.calls)
            /\ r.calls[1].model # VISION_FALLBACK_MODEL
            /\ Len(r.calls) = 2 <=>
                  /\ Len(r.results) >= 1
                  /\ ~r.results[1].ok
                  /\ r.imageDataUrl # <<>>
                  /\ Includes(r.results[1].msg, LicensePhrase)
            /\ Len(r.calls) = 2 => r.calls[2].model = VISION_FALLBACK_MODEL
            /\ (Len(r.results) = 2 /\ r.results[2].ok /\ r.pc = "done") =>
                  IsReplyStream(r.sent, r.finalText)

C9_Step ==
    \A i \in Invs :
        (GetsResult(i, 2) /\ inv'[i].results[2].ok) =>
            /\ messages' = Append(inv[i].nextMessages, AssistantMessage(inv'[i].finalText))
            /\ IsOpenStream(inv'[i].sent)

C9_Fallback == []C9_Now /\ [][C9_Step]_vars

\* a fallback reply was sent to its end
C9_Witness ==
    \E i \in Invs :
        /\ Len(inv[i].calls) = 2
        /\ Len(inv[i].results) = 2
        /\ inv[i].results[2].ok
        /\ inv[i].pc = "done"

\* C10: when the fallback call fails too, the step persists nothing and exactly
\* assistant_done and assistant with the license text are sent, with no
\* assistant_start and no chunk.
C10_Now ==
    \A i \in Invs :
        (Len(inv[i].results) = 2 /\ ~inv[i].results[2].ok) =>
            /\ inv[i].pc = "done"
            /\ inv[i].sent = ErrorPair(inv[i].conn, LicenseErrorText)

C10_Step ==
    \A i \in Invs :
        (GetsResult(i, 2) /\ ~inv'[i].results[2].ok) => messages' = messages

C10_FallbackFailure == []C10_Now /\ [][C10_Step]_vars

\* both calls of an image turn failed
C10_Witness ==
    \E i \in Invs :
        /\ Len(inv[i].results) = 2
        /\ ~inv[i].results[1].ok
        /\ ~inv[i].results[2].ok
        /\ inv[i].pc = "done"

----------------------------------------------------------------------------
(* C11..C20 *)

\* C11: a failed model call ends in chat messages to the client and leaves the
\* session usable: once a turn was given up, its last two sends are assistant_done
\* and assistant with an error text, and a valid user message on the same connection
\* is accepted; the step that accepts it appends its user turn to the history and
\* makes a new primary model call.
C11_Now ==
    \A i \in Invs :
        GaveUp(inv[i]) =>
            /\ \E text \in {GenericErrorText, LicenseErrorText} :
                  LastN(inv[i].sent, 2) = ErrorPair(inv[i].conn, text)
            /\ Len(inv) < MaxInv =>
                  \A f \in {TextFrame, ImageFrame, TextBadImageFrame} :
                      ENABLED OnMessageUser(inv[i].conn, f)

C11_Step ==
    \A i \in Invs :
        (GaveUp(inv[i]) /\ Len(inv') = Len(inv) + 1 /\ Last(inv').conn = inv[i].conn) =>
            /\ Len(messages') = Len(messages) + 1
            /\ IsPrefix(messages, messages')
            /\ Last(messages').role = "user"
            /\ Last(inv').pc = "primary"
            /\ Len(Last(inv').calls) = 1
            /\ Last(Last(inv').calls).model \in {TEXT_MODEL, VISION_MODEL}

C11_UsableAfterFailure == []C11_Now /\ [][C11_Step]_vars

\* a message accepted on the connection of a turn that was given up got its reply
C11_Witness ==
    \E i, j \in Invs :
        /\ i < j
        /\ GaveUp(inv[i])
        /\ inv[j].conn = inv[i].conn
        /\ inv[j].afterFailure
        /\ inv[j].pc = "done"
        /\ Succeeded(inv[j])
        /\ Len(messages) = 3

\* C12: in every reachable persisted history every assistant turn has a user turn
\* at a smaller index.
C12_AssistantAfterUser ==
    \A k \in 1..Len(messages) :
        messages[k].role = "assistant" => \E j \in 1..(k - 1) : messages[j].role = "user"

\* a reply was persisted after a reset had emptied the history during its model call
C12_Witness ==
    \E i \in Invs :
        /\ inv[i].resetSeen
        /\ Succeeded(inv[i])
        /\ Len(messages) = 2
        /\ messages[2].role = "assistant"

\* C13: user messages of one connection are processed in the order received: the
\* step that accepts a message puts its user turn into the history, and whenever
\* the user turns of two messages of one connection are both in the persisted
\* history, the one received first is at the smaller index.
C13_Now ==
    /\ Len(turnOf) = Len(messages)
    /\ \A a \in 1..Len(turnOf) :
          turnOf[a] # 0 =>
              /\ turnOf[a] \in Invs
              /\ messages[a] = Last(inv[turnOf[a]].nextMessages)
              /\ messages[a].role = "user"
    /\ \A a, b \in 1..Len(turnOf) :
          ( /\ turnOf[a] # 0
            /\ turnOf[b] # 0
            /\ turnOf[a] < turnOf[b]
            /\ inv[turnOf[a]].conn = inv[turnOf[b]].conn ) => a < b

C13_Step ==
    Len(inv') = Len(inv) + 1 =>
        /\ \A i \in Invs : inv'[i].nextMessages = inv[i].nextMessages
        /\ Len(messages') = Len(messages) + 1
        /\ \E a \in 1..Len(turnOf') : turnOf'[a] = Len(inv')

C13_InOrder == []C13_Now /\ [][C13_Step]_vars

\* the second message of a connection was accepted and answered while the first
\* was waiting for its model call, and both user turns are in the history
C13_Witness ==
    /\ Len(inv) = 2
    /\ inv[1].conn = inv[2].conn
    /\ inv[1].pc = "primary"
    /\ turnOf = <<1, 2, 0>>

\* C14: persisting the reply does not depend on the connection: the step in which a
\* model call succeeds writes the captured sequence plus the assistant turn to the
\* history whether or not the sends of the reply go through, nothing of the reply
\* is sent before that step, and no later step of the stream touches the history.
C14_Step ==
    \A i \in Invs :
        /\ (InFlight(inv[i]) /\ Succeeded(inv'[i])) =>
              /\ inv[i].sent = <<>>
              /\ messages' = Append(inv[i].nextMessages, AssistantMessage(inv'[i].finalText))
        /\ (inv[i].pc = "sleep" /\ inv'[i] # inv[i]) => messages' = messages

C14_PersistFirst == [][C14_Step]_vars

\* the connection was gone when the model call resolved: nothing was sent, and the
\* assistant turn is in the history
C14_Witness ==
    \E i \in Invs :
        /\ inv[i].pc = "thrown"
        /\ Succeeded(inv[i])
        /\ inv[i].sent = <<>>
        /\ messages = Append(inv[i].nextMessages, AssistantMessage(inv[i].finalText))

\* the frame that the step just taken handled
Handles(f) == received' = <<f>>
NothingHappens == UNCHANGED <<messages, inv, sent, resets, turnOf>>

\* C15: a frame that is not valid JSON, or whose type is neither reset nor user, or a
\* user frame whose content is not a string, produces no outbound message, no
\* model call and no change of the persisted history.
C15_Case(f) ==
    \/ ~f.json
    \/ /\ f.json
       /\ \/ f.p.type \notin {Str(<<"reset">>), Str(<<"user">>)}
          \/ f.p.type = Str(<<"user">>) /\ f.p.content.t # "string"

C15_MalformedIgnored ==
    [][ \A f \in Frames : (C15_Case(f) /\ Handles(f)) => NothingHappens ]_vars

\* a user frame with a number for content and a good image came to a session with
\* a history and a turn in flight
C15_Witness ==
    /\ received = <<NoStringFrame>>
    /\ messages # <<>>
    /\ \E i \in Invs : InFlight(inv[i])

\* C16: a user message whose content is empty after trimming and whose image is
\* absent or not an accepted image data URL produces no outbound message, no model
\* call and no change of the persisted history.
C16_Case(f) ==
    /\ f.json
    /\ f.p.type = Str(<<"user">>)
    /\ f.p.content.t = "string"
    /\ Trim(f.p.content.s) = <<>>
    /\ ~isImageDataUrl(f.p.imageDataUrl)

C16_EmptyIgnored ==
    [][ \A f \in Frames : (C16_Case(f) /\ Handles(f)) => NothingHappens ]_vars

\* a blank message with a data URL that is no image came to a session with a
\* history and a turn in flight
C16_Witness ==
    /\ received = <<BlankBadImageFrame>>
    /\ messages # <<>>
    /\ \E i \in Invs : InFlight(inv[i])

\* C17: a user message with an accepted image and empty trimmed text persists
\* exactly one user turn, with the placeholder "Describe this image." as content
\* and with the image; a user message with non-empty trimmed text persists a user
\* turn whose content is the trimmed text.
C17_IsUser(f) == f.json /\ f.p.type = Str(<<"user">>) /\ f.p.content.t = "string"

C17_Step ==
    \A f \in Frames :
        (C17_IsUser(f) /\ Handles(f)) =>
            /\ (Trim(f.p.content.s) = <<>> /\ isImageDataUrl(f.p.imageDataUrl)) =>
                  messages' = Append(messages,
                                     [role |-> "user",
                                      content |-> <<"Describe this image.">>,
                                      imageDataUrl |-> f.p.imageDataUrl.s])
            /\ Trim(f.p.content.s) # <<>> =>
                  /\ Len(messages') = Len(messages) + 1
                  /\ IsPrefix(messages, messages')
                  /\ Last(messages').role = "user"
                  /\ Last(messages').content = Trim(f.p.content.s)

C17_UserTurn == [][C17_Step]_vars

\* an image with blank text was accepted into a history of several turns
C17_Witness ==
    /\ received = <<ImageFrame>>
    /\ Len(messages) > 2
    /\ Last(messages).content = Placeholder
    /\ Last(messages).imageDataUrl = PngUrl

\* the primary model call of an invocation, the number of context turns in it, its
\* k-th context message and the turn of the history that message stands for
PrimaryOf(r) == r.calls[1]
NumContext(r) == Len(PrimaryOf(r).messages) - 1
ContextMessage(r, k) == PrimaryOf(r).messages[k + 1]
ContextTurn(r, k) == r.nextMessages[Len(r.nextMessages) - NumContext(r) + k]

IsPlainText(m, turn) == m = [role |-> turn.role, content |-> [t |-> "string", s |-> turn.content]]

IsTextAndImage(m, turn) ==
    /\ m.role = "user"
    /\ m.content.t = "array"
    /\ Len(m.content.parts) = 2
    /\ m.content.parts[1] = [type |-> "text", text |-> turn.content]
    /\ m.content.parts[2] = [type |-> "image_url", url |-> turn.imageDataUrl]

\* C18: the primary model is chosen from the triggering message alone: the vision
\* model if and only if that message carries an accepted image, the text model
\* otherwise, also when earlier turns of the context carry images.
C18_ModelByMessage ==
    /\ \A i \in Invs :
          PrimaryOf(inv[i]).model =
              IF "imageDataUrl" \in DOMAIN Last(inv[i].nextMessages)
              THEN VISION_MODEL ELSE TEXT_MODEL
    /\ (received # <<>> /\ C17_IsUser(received[1]) /\ ~C16_Case(received[1])) =>
          PrimaryOf(Last(inv)).model =
              IF isImageDataUrl(received[1].p.imageDataUrl)
              THEN "@cf/meta/llama-3.2-11b-vision-instruct"
              ELSE "@cf/meta/llama-3.3-70b-instruct-fp8-fast"

\* a text message went to the text model with an image turn in its context
C18_Witness ==
    /\ received = <<TextFrame>>
    /\ PrimaryOf(Last(inv)).model = TEXT_MODEL
    /\ \E k \in 1..(NumContext(Last(inv)) - 1) :
          "imageDataUrl" \in DOMAIN ContextTurn(Last(inv), k)

\* C19: on the text path every context turn goes to the model as role and content
\* only; on the vision path a context turn goes as a text part and an image part
\* exactly when it is a user turn with an image, and as role and content otherwise.
C19_Rendering ==
    \A i \in Invs :
        /\ NumContext(inv[i]) <= Len(inv[i].nextMessages)
        /\ \A k \in 1..NumContext(inv[i]) :
              LET m == ContextMessage(inv[i], k)
                  turn == ContextTurn(inv[i], k)
              IN  IF /\ PrimaryOf(inv[i]).model = VISION_MODEL
                     /\ turn.role = "user"
                     /\ "imageDataUrl" \in DOMAIN turn
                  THEN IsTextAndImage(m, turn)
                  ELSE IsPlainText(m, turn)

\* a text call whose context has an image turn, and a vision call whose context
\* has an assistant turn, a user turn without image and a user turn with one
C19_Witness ==
    \E i, j \in Invs :
        /\ PrimaryOf(inv[i]).model = TEXT_MODEL
        /\ \E k \in 1..NumContext(inv[i]) : "imageDataUrl" \in DOMAIN ContextTurn(inv[i], k)
        /\ PrimaryOf(inv[j]).model = VISION_MODEL
        /\ \E k \in 1..NumContext(inv[j]) : ContextTurn(inv[j], k).role = "assistant"
        /\ \E k \in 1..NumContext(inv[j]) :
              /\ ContextTurn(inv[j], k).role = "user"
              /\ "imageDataUrl" \notin DOMAIN ContextTurn(inv[j], k)
        /\ \E k \in 1..(NumContext(inv[j]) - 1) :
              "imageDataUrl" \in DOMAIN ContextTurn(inv[j], k)

\* the content of a context message as text: the string, or the text part
TextOf(m) == IF m.content.t = "string" THEN m.content.s ELSE m.content.parts[1].text

\* C20: the context sent to the primary model is one system instruction followed
\* by the last min(12, L) turns of the history just persisted (L its length), in
\* their order; its last turn is the triggering user turn, and it never holds more
\* than 12 turns.
C20_Context ==
    \A i \in Invs :
        LET r == inv[i]
            L == Len(r.nextMessages)
            n == IF L < 12 THEN L ELSE 12
        IN  /\ PrimaryOf(r).messages[1] = [role |-> "system", content |-> Str(SystemPrompt)]
            /\ NumContext(r) = n
            /\ \A k \in 1..n :
                  /\ ContextMessage(r, k).role = r.nextMessages[L - n + k].role
                  /\ TextOf(ContextMessage(r, k)) = r.nextMessages[L - n + k].content
            /\ ContextMessage(r, n).role = "user"
            /\ TextOf(ContextMessage(r, n)) = IF r.userText # <<>> THEN r.userText
                                              ELSE <<"Describe this image.">>
            /\ (i = Len(inv) /\ received # <<>>
                  /\ C17_IsUser(received[1]) /\ ~C16_Case(received[1])) =>
                  r.nextMessages = messages

\* a message accepted into a history of 15 turns was sent with the last 12
C20_Witness ==
    \E i \in Invs :
        /\ Len(inv[i].nextMessages) = 15
        /\ NumContext(inv[i]) = 12
        /\ TextOf(ContextMessage(inv[i], 1)) = inv[i].nextMessages[4].content

----------------------------------------------------------------------------
(* C21..C30 *)

\* C27: in every reachable state every persisted turn has role user or assistant;
\* the system instruction that heads each model call is never written to the
\* history.
C27_Roles ==
    /\ \A k \in 1..Len(messages) :
          /\ messages[k].role \in {"user", "assistant"}
          /\ messages[k].content # SystemPrompt
    /\ \A i \in Invs :
          /\ PrimaryOf(inv[i]).messages[1].role = "system"
          /\ \A k \in 1..Len(inv[i].nextMessages) :
                inv[i].nextMessages[k].role \in {"user", "assistant"}

\* a reply was persisted after a model call headed by the system instruction; the
\* history holds both roles
C27_Witness ==
    /\ \E i \in Invs : /\ inv[i].pc = "done"
                       /\ Succeeded(inv[i])
                       /\ PrimaryOf(inv[i]).messages[1].content = Str(SystemPrompt)
    /\ \E k \in 1..Len(messages) : messages[k].role = "user"
    /\ \E k \in 1..Len(messages) : messages[k].role = "assistant"

\* /^data:image\/[a-zA-Z0-9.+-]+;base64,/ read off a string: "data:image/" comes
\* first, ";base64," comes at some later place, and what is between them is one or
\* more characters of a media type
MatchesImagePattern(s) ==
    /\ Len(s) >= 3
    /\ s[1] = "data:image/"
    /\ \E j \in 3..Len(s) :
          /\ s[j] = ";base64,"
          /\ \A m \in 2..(j - 1) : s[m] \in MediaTypeAtoms

\* C28: in every reachable state an image is present only on turns with role user,
\* and every image present matches the image data-URL pattern; assistant turns
\* carry no image.
C28_ImagesOnUserTurns ==
    \A k \in 1..Len(messages) :
        /\ HasImage(messages[k]) =>
              /\ messages[k].role = "user"
              /\ MatchesImagePattern(messages[k].imageDataUrl)
        /\ messages[k].role = "assistant" => DOMAIN messages[k] = {"role", "content"}

\* a user turn with an image, a user turn whose image was refused, and a reply
\* are persisted
C28_Witness ==
    /\ \E k \in 1..Len(messages) : HasImage(messages[k])
    /\ \E k \in 1..Len(messages) : messages[k].role = "assistant"
    /\ \E i \in Invs : inv[i].userText = <<"h", "i">> /\ inv[i].imageDataUrl = <<>>
                       /\ ~HasImage(Last(inv[i].nextMessages))

\* C29: every message sent while an inbound message is processed (the empty
\* history after a reset, assistant_start, assistant_chunk, assistant_done,
\* assistant, the error texts) goes to the connection that delivered that inbound
\* message and to no other.
C29_OriginatingConnection ==
    /\ \A i \in Invs : \A k \in 1..Len(inv[i].sent) : inv[i].sent[k].conn = inv[i].conn
    /\ Len(sent) = Len(resets)
    /\ \A k \in 1..Len(sent) : sent[k].conn = resets[k] /\ sent[k].msg.type = "history"

\* two messages came on different connections, one was streamed to its end and the
\* other got the error text, and a reset came on a connection too
C29_Witness ==
    /\ Len(inv) = 2
    /\ inv[1].conn # inv[2].conn
    /\ inv[1].pc = "done" /\ inv[2].pc = "done"
    /\ Succeeded(inv[2]) /\ GaveUp(inv[1])
    /\ inv[1].sent # <<>> /\ inv[2].sent # <<>>
    /\ sent # <<>>

\* the image field of frame f is a string that begins with data:image/<type>;base64,
C25_GoodImage(f) ==
    f.p.imageDataUrl.t = "string" /\ MatchesImagePattern(f.p.imageDataUrl.s)

\* C25: the image field of a user message is accepted only when it is a string
\* that begins with data:image/<type>;base64, ; any other value is treated as
\* absent: with non-empty text the message is a text-only turn (no image is
\* persisted, the text model is called with plain text), with blank text nothing
\* happens.
C25_Step ==
    \A f \in Frames :
        (C17_IsUser(f) /\ Handles(f)) =>
            /\ (~C25_GoodImage(f) /\ Trim(f.p.content.s) # <<>>) =>
                  /\ messages' = Append(messages,
                                        [role |-> "user", content |-> Trim(f.p.content.s)])
                  /\ Len(inv') = Len(inv) + 1
                  /\ Last(inv').imageDataUrl = <<>>
                  /\ PrimaryOf(Last(inv')).model = "@cf/meta/llama-3.3-70b-instruct-fp8-fast"
                  /\ \A k \in 2..Len(PrimaryOf(Last(inv')).messages) :
                        PrimaryOf(Last(inv')).messages[k].content.t = "string"
            /\ (~C25_GoodImage(f) /\ Trim(f.p.content.s) = <<>>) => NothingHappens
            /\ C25_GoodImage(f) =>
                  /\ Len(messages') = Len(messages) + 1
                  /\ HasImage(Last(messages'))
                  /\ Last(messages').imageDataUrl = f.p.imageDataUrl.s
                  /\ PrimaryOf(Last(inv')).model = "@cf/meta/llama-3.2-11b-vision-instruct"

C25_ImageAcceptance ==
    /\ [][C25_Step]_vars
    /\ [](\A k \in 1..Len(messages) :
             HasImage(messages[k]) => MatchesImagePattern(messages[k].imageDataUrl))

\* text came with data:image/;base64,A, which names no media type, after an image
\* message: the turn is persisted without an image and sent to the text model
C25_Witness ==
    /\ received = <<NoMediaTypeFrame>>
    /\ Len(inv) = 2
    /\ inv[1].imageDataUrl = PngUrl
    /\ inv[2].imageDataUrl = <<>>
    /\ Last(messages) = [role |-> "user", content |-> <<"h", "i">>]
    /\ PrimaryOf(inv[2]).model = TEXT_MODEL

\* C21: on every new connection the handler sends exactly one history message
\* with the last min(50, L) turns of the persisted history (L its length) in their
\* order, to that connection, and leaves the persisted history as it is.
C21_Step ==
    connected' # connected =>
        LET L == Len(messages)
            n == IF L < 50 THEN L ELSE 50
        IN  /\ Len(connected') = Len(connected) + 1
            /\ Len(sent') = Len(sent) + 1
            /\ IsPrefix(sent, sent')
            /\ Last(sent').conn = Last(connected')
            /\ Last(sent').msg.type = "history"
            /\ Len(Last(sent').msg.messages) = n
            /\ \A k \in 1..n : Last(sent').msg.messages[k] = messages[L - n + k]
            /\ messages' = messages
            /\ inv' = inv

C21_HistoryOnConnect == [][C21_Step]_vars /\ [](Len(sent) = Len(connected))

\* a connection opened on a history of 53 turns, two of them written in this run,
\* and was sent the turns from the fourth on
C21_Witness ==
    /\ Len(messages) = 53
    /\ Len(inv) = 1
    /\ Len(sent) = 1
    /\ Len(sent[1].msg.messages) = 50
    /\ sent[1].msg.messages[1] = messages[4]
    /\ sent[1].msg.messages[50] = messages[53]

\* C22: writes never prune the history.  Accepting a user message appends one user
\* turn; a reply that arrives when nothing was written since its message was
\* accepted appends one assistant turn; so a successful turn without overlap
\* leaves every earlier turn in place and makes the history longer by exactly 2,
\* also beyond the 12 turns of the context and the 50 turns of onConnect.
C22_Step ==
    /\ Len(inv') = Len(inv) + 1 =>
          /\ Len(messages') = Len(messages) + 1
          /\ IsPrefix(messages, messages')
          /\ Last(messages').role = "user"
    /\ \A i \in Invs :
          (inv[i].pc = "primary" /\ inv'[i].pc = "sleep" /\ messages = inv[i].nextMessages) =>
              /\ Len(messages') = Len(messages) + 1
              /\ IsPrefix(messages, messages')
              /\ Last(messages').role = "assistant"
              /\ messages'[Len(messages)].role = "user"

C22_NoPruning ==
    /\ [][C22_Step]_vars
    /\ [](Len(inv) = 1 /\ inv[1].pc \in {"sleep", "done"} =>
             /\ Len(messages) = Len(inv[1].nextMessages) + 1
             /\ IsPrefix(inv[1].nextMessages, messages)
             /\ Len(inv[1].nextMessages) \in {n + 1 : n \in StoredLengths})

\* one turn was handled to its end on a history of 51 turns: all 51 are in place
\* and the history has 53
C22_Witness ==
    /\ Len(inv) = 1
    /\ inv[1].pc = "done"
    /\ Len(messages) = 53
    /\ SubSeq(messages, 1, 51) = Past(51)
    /\ messages[52].role = "user" /\ messages[53].role = "assistant"

\* the contents of the assistant_chunk messages an invocation has sent, in order
IsChunk(m) == m.msg.type = "assistant_chunk"
ChunkContents(r) == [k \in 1..Len(SelectSeq(r.sent, IsChunk)) |-> SelectSeq(r.sent, IsChunk)[k].msg.content]

\* words lo..hi of a reply, at most three, each followed by one space
C23_Group(lo, hi) ==
    IF hi = lo THEN Word(lo) \o <<" ">>
    ELSE IF hi = lo + 1 THEN Word(lo) \o <<" ">> \o Word(hi) \o <<" ">>
    ELSE Word(lo) \o <<" ">> \o Word(lo + 1) \o <<" ">> \o Word(hi) \o <<" ">>

\* C23: for a reply text of n >= 1 whitespace-separated words chunkByWords(text, 3)
\* gives ceil(n/3) chunks in order; chunk k holds words 3k+1..min(3k+3, n), joined
\* by single spaces, and one trailing space; all but the last hold 3 words.  The
\* chunks are sent in that order.
C23_Chunks ==
    \A i \in Invs : \A n \in 1..MaxWords, lead \in Leads, sep \in Seps, trail \in Trails :
        (Succeeded(inv[i]) /\ inv[i].finalText = Text(n, lead, sep, trail)) =>
            LET c == inv[i].chunks
                m == (n + 2) \div 3
            IN  /\ Len(c) = m
                /\ \A k \in 0..(m - 1) :
                      c[k + 1] = C23_Group(3 * k + 1, IF 3 * k + 3 < n THEN 3 * k + 3 ELSE n)
                /\ ChunkContents(inv[i]) = SubSeq(c, 1, inv[i].k)
                /\ inv[i].pc = "done" => inv[i].k = m

\* a reply of 7 words, with tabs and newlines about them, was streamed to its end
\* as chunks of 3, 3 and 1 words
C23_Witness ==
    \E i \in Invs :
        /\ inv[i].pc = "done"
        /\ inv[i].finalText = Text(7, <<" ">>, <<"\t">>, <<"\n">>)
        /\ ChunkContents(inv[i]) =
              << <<"w", "1", " ", "w", "2", " ", "w", "3", " ">>,
                 <<"w", "4", " ", "w", "5", " ", "w", "6", " ">>,
                 <<"w", "7", " ">> >>

\* the text has no whitespace-separated token
C24_NoToken(text) == \A k \in 1..Len(text) : text[k] \in {" ", "\t", "\n"}

\* C24: chunkByWords never returns an empty list; for a text with no
\* whitespace-separated token it returns one chunk, the whole text; so every
\* successful reply sends at least one assistant_chunk between assistant_start
\* and assistant_done.
C24_AtLeastOneChunk ==
    \A i \in Invs :
        Succeeded(inv[i]) =>
            LET r == inv[i]
            IN  /\ Len(r.chunks) >= 1
                /\ C24_NoToken(r.finalText) => r.chunks = <<r.finalText>>
                /\ r.sent[1].msg.type = "assistant_start"
                /\ r.sent[2].msg.type = "assistant_chunk"
                /\ r.pc = "done" =>
                      /\ Len(r.sent) >= 4
                      /\ \A k \in 2..(Len(r.sent) - 2) : r.sent[k].msg.type = "assistant_chunk"
                      /\ r.sent[Len(r.sent) - 1].msg.type = "assistant_done"

\* a reply of a space and a newline was streamed as one chunk that is the text
C24_Witness ==
    \E i \in Invs :
        /\ inv[i].pc = "done"
        /\ inv[i].finalText = <<" ", "\n">>
        /\ ChunkContents(inv[i]) = << <<" ", "\n">> >>
        /\ TypesOf(inv[i].sent) =
              <<"assistant_start", "assistant_chunk", "assistant_done", "assistant">>

\* field name of response v is populated: it is there and holds a non-empty text
C26_Populated(v, name) == v.t = "object" /\ name \in DOMAIN v.f /\ v.f[name] # <<>>

\* the reply text the priority order names gives for response v
RECURSIVE C26_FirstPopulated(_, _)
C26_FirstPopulated(v, names) ==
    IF names = <<>>
    THEN (IF v.t = "string" THEN v.s ELSE JsString(JsonStringify(v)))
    ELSE IF C26_Populated(v, Head(names)) THEN v.f[Head(names)]
    ELSE C26_FirstPopulated(v, Tail(names))

\* C26: the reply text is the first populated field of the response in the order
\* response, result, output_text (and description, last, for the fallback call
\* alone); when none is populated it is the raw response if that is a string and
\* its JSON stringification otherwise; the primary path never reads description.
C26_Extraction ==
    \A i \in Invs :
        Succeeded(inv[i]) =>
            inv[i].finalText =
                C26_FirstPopulated(Last(inv[i].results).value,
                                   IF Len(inv[i].results) = 1
                                   THEN <<"response", "result", "output_text">>
                                   ELSE <<"response", "result", "output_text", "description">>)

\* C30: the client's session identifier is stable.  getAgentId makes and stores a
\* new identifier only when local storage holds none; every later call, after a
\* reload too, returns the stored identifier and leaves local storage as it is, so
\* repeated visits address the same conversation.
C30_Step ==
    agentIds' # agentIds =>
        /\ Len(agentIds') = Len(agentIds) + 1
        /\ IsPrefix(agentIds, agentIds')
        /\ localStorage # <<>> =>
              /\ Last(agentIds') = localStorage[1]
              /\ localStorage' = localStorage
              /\ Last(agentIds') = Last(agentIds)
        /\ localStorage = <<>> => localStorage' = <<Last(agentIds')>>

C30_StableId ==
    /\ [][C30_Step]_vars
    /\ [](localStorage # <<>> => agentIds # <<>> /\ localStorage = <<Last(agentIds)>>)

\* the page was loaded three times and got the same identifier each time, the one
\* that local storage holds
C30_Witness ==
    /\ Len(agentIds) = 3
    /\ agentIds[1] = agentIds[2] /\ agentIds[2] = agentIds[3]
    /\ localStorage = <<agentIds[1]>>

----------------------------------------------------------------------------
(* C31..C35 *)

\* invocation i has its reply: the model call resolved and the reply was persisted
Completed(i) == i \in Invs /\ inv[i].pc \in {"sleep", "done"} /\ Succeeded(inv[i])

\* B, the second message, was accepted while the call of A, the first, was awaited
Overlap ==
    /\ Len(inv) = 2
    /\ inv[2].nextMessages = Append(inv[1].nextMessages, Last(inv[2].nextMessages))

\* the step in which the model call of invocation i resolves and its reply is written
Completes(i) == i \in Invs /\ InFlight(inv[i]) /\ inv'[i].pc = "sleep"

\* C31: two user messages A then B are accepted on one session and their model
\* calls overlap.  Each completion writes its own captured sequence plus its reply
\* over the whole state, so the one that completes last decides: if A is last the
\* history ends [.., A, replyA] and B's turn and reply are gone; if B is last it
\* ends [.., A, B, replyB] and A's reply is gone; never are both replies there.
C31_Step ==
    /\ \A i \in Invs :
          Completes(i) =>
              messages' = Append(inv[i].nextMessages, AssistantMessage(inv'[i].finalText))
    /\ (Overlap /\ Completed(2) /\ Completes(1)) =>
          /\ Len(messages') = Len(inv[1].nextMessages) + 1
          /\ messages'[Len(messages') - 1] = Last(inv[1].nextMessages)
          /\ Last(messages') = [role |-> "assistant", content |-> inv'[1].finalText]
          /\ NumRole(messages', "user") = NumRole(inv[1].nextMessages, "user")
    /\ (Overlap /\ Completed(1) /\ Completes(2)) =>
          /\ Len(messages') = Len(inv[1].nextMessages) + 2
          /\ messages'[Len(messages') - 2] = Last(inv[1].nextMessages)
          /\ messages'[Len(messages') - 1] = Last(inv[2].nextMessages)
          /\ Last(messages') = [role |-> "assistant", content |-> inv'[2].finalText]

C31_LastCompleterWins ==
    /\ [][C31_Step]_vars
    /\ []((Overlap /\ Completed(1) /\ Completed(2) /\ resets = <<>>) =>
             /\ NumRole(messages, "assistant") = 1
             /\ \/ messages = Append(inv[1].nextMessages, AssistantMessage(inv[1].finalText))
                \/ messages = Append(inv[2].nextMessages, AssistantMessage(inv[2].finalText)))

\* a text message and then an image message were accepted, the second was answered
\* first and the first last: the history is the first message and its reply
C31_Witness ==
    /\ Overlap /\ Completed(1) /\ Completed(2) /\ resets = <<>>
    /\ inv[1].finalText # inv[2].finalText
    /\ inv[2].imageDataUrl # <<>>
    /\ messages = <<[role |-> "user", content |-> <<"h", "i">>],
                    [role |-> "assistant", content |-> inv[1].finalText]>>

\* C35: in every reachable state every persisted user turn has non-empty content:
\* the trimmed text when that is non-empty, else the placeholder, which is used
\* only when an image is attached; so toAiMessage never takes its own substitute
\* for empty content on a persisted turn.
C35_NonEmptyUserContent ==
    /\ \A k \in 1..Len(messages) : messages[k].role = "user" => messages[k].content # <<>>
    /\ \A i \in Invs :
          LET r == inv[i]
              turn == Last(r.nextMessages)
          IN  /\ turn.role = "user"
              /\ r.userText # <<>> => turn.content = r.userText
              /\ r.userText = <<>> =>
                    /\ turn.content = <<"Describe this image.">>
                    /\ HasImage(turn)
              /\ \A k \in 1..Len(r.nextMessages) :
                    r.nextMessages[k].role = "user" => r.nextMessages[k].content # <<>>
              /\ \A k \in 1..NumContext(r) :
                    ContextMessage(r, k).content.t = "array" =>
                        /\ ContextMessage(r, k).content.parts[1].text = ContextTurn(r, k).content
                        /\ ContextMessage(r, k).content.parts[1].text
                              # <<"Please describe this image.">>

\* an image came without text and was persisted with the placeholder, and a later
\* image message was rendered for the vision model with that turn in its context
C35_Witness ==
    /\ Len(inv) = 2
    /\ inv[1].userText = <<>> /\ inv[2].imageDataUrl # <<>>
    /\ NumContext(inv[2]) >= 2
    /\ \E k \in 1..NumContext(inv[2]) :
          /\ ContextMessage(inv[2], k).content.t = "array"
          /\ ContextMessage(inv[2], k).content.parts[1].text = Placeholder

\* how many messages of the type invocation r has sent
NumSent(r, type) == Cardinality({k \in 1..Len(r.sent) : r.sent[k].msg.type = type})

\* invocation i has returned, with one assistant_done and one assistant sent on the
\* connection its message came on
Answered(i) ==
    /\ i \in Invs
    /\ inv[i].pc = "done"
    /\ NumSent(inv[i], "assistant_done") = 1
    /\ NumSent(inv[i], "assistant") = 1
    /\ \A k \in 1..Len(inv[i].sent) : inv[i].sent[k].conn = inv[i].conn

\* C32: every accepted user message is eventually answered: if each model call
\* returns or fails and no send throws, its onMessage invocation terminates and has
\* sent exactly one assistant_done and exactly one assistant on the originating
\* connection, on each of the four paths (primary success, fallback success,
\* generic failure, fallback failure).
C32_EventuallyAnswered ==
    /\ \A i \in 1..MaxInv : (i \in Invs) ~> Answered(i)
    /\ [](\A i \in Invs :
             /\ NumSent(inv[i], "assistant_done") <= 1
             /\ NumSent(inv[i], "assistant") <= 1
             /\ inv[i].pc = "done" => Answered(i))

\* two messages were answered, one after the fallback model failed and one by the
\* primary model
C32_Witness ==
    /\ Answered(1) /\ Answered(2)
    /\ Len(inv[1].results) = 2 /\ GaveUp(inv[1])
    /\ Len(inv[2].results) = 1 /\ Succeeded(inv[2])

\* the (role, content) pairs of a list of turns
Pairs(list) == [k \in 1..Len(list) |-> [role |-> list[k].role, content |-> list[k].content]]

\* no reply is pending: every frame has arrived, every invocation has returned and
\* the page does not wait
C33_NothingPending ==
    /\ connected # <<>>
    /\ inbox = <<>> /\ outbox = <<>>
    /\ \A i \in Invs : inv[i].pc = "done"
    /\ ~waitingForReply

\* C33: with one page of the bundled UI, text messages, no reset, no model
\* failure, at most 50 turns and each message sent only after the previous reply
\* arrived: whenever no reply is pending, the (role, content) pairs the page
\* displays are the persisted history of the session.
C33_PageShowsHistory ==
    C33_NothingPending => Pairs(uiMessages) = Pairs(messages)


\* the timeouts that will still run connect, the sockets connecting or open
PendingTimers == {t \in 1..Len(timers) : timers[t].state = "pending"}
LiveSockets == {s \in 1..Len(sockets) : sockets[s].readyState \in {"connecting", "open"}}

\* socket s is closed in this step
Closes(s) == sockets[s].readyState # "closed" /\ sockets'[s].readyState = "closed"

C34_Safe ==
    /\ Cardinality(PendingTimers) <= 1
    /\ Cardinality(LiveSockets) <= 1
    /\ LiveEffect = 0 => PendingTimers = {} /\ LiveSockets = {}

C34_Step ==
    /\ \A s \in 1..Len(sockets) :
          Closes(s) =>
             IF effects[sockets[s].effect]
             THEN timers' = timers
             ELSE /\ Len(timers') = Len(timers) + 1
                  /\ timers'[Len(timers')] = [state |-> "pending", delay |-> 850,
                                              effect |-> sockets[s].effect]
                  /\ PendingTimers' = {Len(timers')}
                  /\ reconnectTimerRef' = Len(timers')
    /\ Len(sockets') > Len(sockets) =>
          /\ Len(sockets') = Len(sockets) + 1
          /\ \/ LiveEffect = 0 /\ LiveEffect' # 0
             \/ /\ LiveEffect # 0
                /\ \E t \in PendingTimers :
                      /\ timers[t].delay = 850
                      /\ timers'[t].state = "fired"
    /\ LiveEffect = 0 /\ LiveEffect' = 0 =>
          /\ Len(sockets') = Len(sockets)
          /\ timers' = timers

====
